---- MODULE Spec2Model ----
(***************************************************************************)
(* Model of io::SerialIo (communication/io.hpp): connect() with its open   *)
(* retry loop and line configuration, and setBaurate(), the stepwise baud  *)
(* rate negotiation over the table `baudrates`.                            *)
(*                                                                         *)
(* The serial handle (boost::asio::serial_port on a tty) is the            *)
(* environment: open() succeeds or throws, every option call succeeds or   *)
(* fails, and a handle either applies a baud_rate set_option or silently   *)
(* keeps its rate (`sticky`).                                              *)
(***************************************************************************)
EXTENDS Integers, Sequences, FiniteSets

(* ---------------------------------------------------------------- data *)

\* io.hpp:46-49, the possible baudrates for the Rx.
baudrates ==
    << 1200,    2400,    4800,    9600,    19200,   38400,   57600,
       115200,  230400,  460800,  500000,  576000,  921600,  1000000,
       1152000, 1500000, 2000000, 2500000, 3000000, 3500000, 4000000 >>

\* baudrates.size(), the bound of the for loop (io.hpp:215).
TableSize == Len(baudrates)

BaudTable == { baudrates[k] : k \in 1..TableSize }

\* Index (1-based) of a table member.
IndexOf(r) == CHOOSE k \in 1..TableSize : baudrates[k] = r

\* The table entries with indices from..to, in table order.
TableSlice(from, to) == [ k \in 1..(to - from + 1) |-> baudrates[from + k - 1] ]

\* Rates that are no table members: one below the table, one between two
\* entries, one above the table.
OffTableRates == { 300, 100000, 5000000 }

\* Values of the constructor argument `baudrate` (io.hpp:99-101).
Targets == BaudTable \cup { 100000 }

\* Rates the tty may have when the program opens it (115200 is the Rx
\* default named at io.hpp:188-192).
DeviceRates == { 9600, 115200 }

\* Rates of the simulated handle setBaurate() is run against on its own.
SimRates == BaudTable \cup OffTableRates

\* Retries of open() the model follows (the code has no limit).
MaxOpenFail == 2

\* termios flag bits the code or cfmakeraw touch.
IFlags == { "IXON", "IXOFF" }
CFlags == { "CRTSCTS" }
LFlags == { "ICANON", "ECHO" }

AllTio == [ c_iflag : SUBSET IFlags, c_cflag : SUBSET CFlags, c_lflag : SUBSET LFlags ]

\* `termios tio;` before tcgetattr has filled it, and "nothing committed".
NoTio == [ c_iflag |-> {"uninit"}, c_cflag |-> {"uninit"}, c_lflag |-> {"uninit"} ]

(* --------------------------------------------------------------- state *)

VARIABLES
    baudrate_,          \* SerialIo::baudrate_, the target rate
    flowcontrol_,       \* SerialIo::flowcontrol_
    is_open,            \* serialPort_.is_open() (TcpIo: socket_.is_open())
    rate,               \* baud rate of the handle, what get_option reads
    sticky,             \* the handle silently keeps its rate on set_option
    shutdown,           \* the owning process has asked to stop
    pc,                 \* position of the calling thread
    opened,             \* connect()'s local `opened`
    openFails,          \* failed open() attempts of this connect()
    tio,                \* connect()'s local `termios tio`
    committed,          \* termios handed to a successful tcsetattr
    hintSet,            \* ASYNC_LOW_LATENCY stored by TIOCSSERIAL
    lineCfgFailed,      \* tcgetattr/tcsetattr/ioctl returned an error
    i,                  \* setBaurate()'s loop index (0-based as in the code)
    current_baudrate,   \* setBaurate()'s local current_baudrate.value()
    rate0,              \* the rate the initial get_option returned
    setLog,             \* rates requested by set_option in setBaurate()
    negResult,          \* what setBaurate() returned
    result,             \* what connect() returned
    trace,              \* calls and log lines of the running call, in order
    live,               \* OS handles the object has opened and not released
    released,           \* times the handle opened last has been released
    glitches,           \* get_option results that were not the handle's rate
    pcB,                \* position of a second thread, running the destructor
    endpointIterator_,  \* TcpIo::endpointIterator_: the endpoint resolved first
    reachable,          \* the endpoints that accept a connection
    connected,          \* TcpIo: socket_ is connected
    no_delay            \* TcpIo: tcp::no_delay is set on socket_

vars == << baudrate_, flowcontrol_, is_open, rate, sticky, shutdown, pc, opened,
           openFails, tio, committed, hintSet, lineCfgFailed, i,
           current_baudrate, rate0, setLog, negResult, result, trace,
           live, released, glitches, pcB, endpointIterator_, reachable,
           connected, no_delay >>

\* The handle accounting of the object.
handleVars == << live, released >>

\* State of TcpIo.
tcpVars == << endpointIterator_, reachable, connected, no_delay >>

\* State no step of the thread inside SerialIo::connect() touches.
elsewhere == << glitches, pcB, tcpVars >>

config == << baudrate_, flowcontrol_, sticky >>
connectLocals == << opened, openFails, tio, committed, hintSet, lineCfgFailed, result >>
negLocals == << i, current_baudrate, rate0, setLog, negResult >>

\* Positions inside setBaurate().
NegPcs == { "get0", "loop", "settle", "readback", "after_loop" }

\* Positions of connect()'s line configuration (io.hpp:134-173).
CfgPcs == { "set_options", "tcgetattr", "flow", "cfmakeraw", "tcsetattr",
            "tiocgserial", "tiocsserial" }

Emit(events) == trace' = trace \o events

Last(seq) == seq[Len(seq)]

(* ---------------------------------------------------------------- Init *)

\* A SerialIo after its constructor (io.hpp:98-103): port closed.
Init ==
    /\ baudrate_ \in Targets
    /\ flowcontrol_ \in BOOLEAN
    /\ is_open = FALSE
    /\ rate \in DeviceRates
    /\ sticky \in BOOLEAN
    /\ shutdown = FALSE
    /\ pc = "idle"
    /\ pcB = "none"
    /\ live = 0
    /\ released = 0
    /\ glitches = 0
    /\ endpointIterator_ = 0
    /\ reachable = { }
    /\ connected = FALSE
    /\ no_delay = FALSE
    /\ opened = FALSE
    /\ openFails = 0
    /\ tio = NoTio
    /\ committed = NoTio
    /\ hintSet = FALSE
    /\ lineCfgFailed = FALSE
    /\ i = 0
    /\ current_baudrate = 0
    /\ rate0 = 0
    /\ setLog = << >>
    /\ negResult = "none"
    /\ result = "none"
    /\ trace = << >>

(* ----------------------------------------------------------- connect() *)

\* Variant of close() that releases the descriptor whatever its state.
ReleasesWhateverState(open) == 1

\* Handles a close() of the port or socket releases: the descriptor is
\* released when it is open, a close() of a closed one does nothing and
\* reports no error (io.hpp:78, 105, 111).
ReleasedByClose(open) == IF open THEN 1 ELSE 0

\* The rest of a connect() entry: the locals and the record of the call.
EnterConnect ==
    /\ pc' = "open"
    /\ opened' = FALSE
    /\ openFails' = 0
    /\ tio' = NoTio
    /\ committed' = NoTio
    /\ hintSet' = FALSE
    /\ lineCfgFailed' = FALSE
    /\ i' = 0
    /\ current_baudrate' = 0
    /\ rate0' = 0
    /\ setLog' = << >>
    /\ negResult' = "none"
    /\ result' = "none"
    /\ trace' = << >>
    /\ UNCHANGED << config, elsewhere, rate, shutdown >>

\* Variant of the entry of connect() that leaves an open handle alone.
KeepsHandleOnEntry(open) == FALSE

\* io.hpp:109-112: connect() closes the port when it finds it open.
ClosesOnEntry(open) == open

\* io.hpp:107-114: close a handle left open, opened = false.
CallConnect ==
    /\ pc \in { "idle", "returned", "thrown" }
    /\ is_open' = (is_open /\ ~ClosesOnEntry(is_open))
    /\ live' = IF ClosesOnEntry(is_open)
                THEN live - ReleasedByClose(is_open) ELSE live
    /\ released' = IF ClosesOnEntry(is_open)
                    THEN released + ReleasedByClose(is_open) ELSE released
    /\ EnterConnect

\* io.hpp:105: ~SerialIo() calls serialPort_.close() whatever the state of
\* the port.
Destroy ==
    /\ pc \in { "idle", "returned", "thrown" }
    /\ pc' = "destroying"
    /\ is_open' = FALSE
    /\ live' = live - ReleasedByClose(is_open)
    /\ released' = released + ReleasedByClose(is_open)
    /\ Emit(<< "close" >>)
    /\ UNCHANGED << config, elsewhere, rate, shutdown, connectLocals, negLocals >>

\* io.hpp:105, 276: after the body of ~SerialIo() the member serialPort_ is
\* destroyed, which closes the port once more.
DestroyMember ==
    /\ pc = "destroying"
    /\ pc' = "destroyed"
    /\ is_open' = FALSE
    /\ live' = live - ReleasedByClose(is_open)
    /\ released' = released + ReleasedByClose(is_open)
    /\ Emit(<< "close" >>)
    /\ UNCHANGED << config, elsewhere, rate, shutdown, connectLocals, negLocals >>

\* io.hpp:116-121: open() succeeds, the loop ends.  Whether open(port_)
\* succeeds is the environment's choice at every attempt.
OpenOk ==
    /\ pc = "open"
    /\ is_open' = TRUE
    /\ opened' = TRUE
    /\ pc' = "set_options"
    /\ live' = live + 1
    /\ released' = 0
    /\ Emit(<< "open_ok" >>)
    /\ UNCHANGED << config, elsewhere, rate, shutdown, openFails, tio, committed, hintSet,
                    lineCfgFailed, result, negLocals >>

\* io.hpp:116-128: open() throws system_error, the catch block logs.
OpenFail ==
    /\ pc = "open"
    /\ openFails < MaxOpenFail
    /\ openFails' = openFails + 1
    /\ pc' = "backoff"
    /\ Emit(<< "open_fail", "log_ERROR" >>)
    /\ UNCHANGED << config, elsewhere, handleVars, is_open, rate, shutdown, opened, tio, committed,
                    hintSet, lineCfgFailed, result, negLocals >>

\* Variant of the retry loop that gives up after a second failed attempt.
BackoffGivesUp ==
    /\ pc = "backoff"
    /\ pc' = IF openFails >= 2 THEN "returned" ELSE "open"
    /\ result' = IF openFails >= 2 THEN "false" ELSE result
    /\ Emit(<< "sleep_1s" >>)
    /\ UNCHANGED << config, elsewhere, handleVars, is_open, rate, shutdown, opened, openFails, tio,
                    committed, hintSet, lineCfgFailed, negLocals >>

\* io.hpp:129-132: sleep_for(1s), then the loop tests !opened again.
Backoff ==
    /\ pc = "backoff"
    /\ pc' = IF opened THEN "set_options" ELSE "open"
    /\ Emit(<< "sleep_1s" >>)
    /\ UNCHANGED << config, elsewhere, handleVars, is_open, rate, shutdown, connectLocals, negLocals >>

\* The owning process asks to stop; nothing in io.hpp reads the request.
RequestShutdown ==
    /\ ~shutdown
    /\ pc \in { "open", "backoff" }
    /\ shutdown' = TRUE
    /\ UNCHANGED << config, elsewhere, handleVars, is_open, rate, pc, connectLocals, negLocals, trace >>

(* ---------------------------------------- connect(): line configuration *)

\* What set_option(baud_rate(r)) leaves in the handle.
RateAfterSet(r) == IF sticky THEN rate ELSE r

\* io.hpp:134-143: baud rate = baudrate_, no parity, 8 bits, 1 stop bit, no
\* flow control; all five calls succeed.
SetOptionsOk ==
    /\ pc = "set_options"
    /\ rate' = RateAfterSet(baudrate_)
    /\ pc' = "tcgetattr"
    /\ Emit(<< "set_options" >>)
    /\ UNCHANGED << config, elsewhere, handleVars, is_open, shutdown, connectLocals, negLocals >>

\* io.hpp:134-143: one of the set_option calls throws; connect() has no
\* handler, the exception leaves connect().
SetOptionsThrow ==
    /\ pc = "set_options"
    /\ pc' = "thrown"
    /\ result' = "exception"
    /\ Emit(<< "set_options_throw" >>)
    /\ UNCHANGED << config, elsewhere, handleVars, is_open, rate, shutdown, opened, openFails, tio,
                    committed, hintSet, lineCfgFailed, negLocals >>

\* io.hpp:145-149: tcgetattr(fd, &tio); its return value is not looked at.
\* On success tio holds the attributes the handle had, on failure tio stays
\* uninitialised: any contents either way.
TcGetAttr ==
    /\ pc = "tcgetattr"
    /\ \E ok \in BOOLEAN, t \in AllTio :
          /\ tio' = t
          /\ lineCfgFailed' = (lineCfgFailed \/ ~ok)
    /\ pc' = "flow"
    /\ Emit(<< "tcgetattr" >>)
    /\ UNCHANGED << config, elsewhere, handleVars, is_open, rate, shutdown, opened, openFails,
                    committed, hintSet, result, negLocals >>

\* Variant of io.hpp:152-160 that clears IXON only.
FlowControlBitsKeepXoff(t, flowcontrol) ==
    IF flowcontrol
    THEN [ t EXCEPT !.c_iflag = @ \ { "IXON" },
                    !.c_cflag = @ \cup { "CRTSCTS" } ]
    ELSE [ t EXCEPT !.c_iflag = @ \ { "IXON" },
                    !.c_cflag = @ \ { "CRTSCTS" } ]

\* io.hpp:152-160: the hardware flow control bits.
FlowControlBits(t, flowcontrol) ==
    IF flowcontrol
    THEN [ t EXCEPT !.c_iflag = @ \ { "IXOFF", "IXON" },
                    !.c_cflag = @ \cup { "CRTSCTS" } ]
    ELSE [ t EXCEPT !.c_iflag = @ \ { "IXOFF", "IXON" },
                    !.c_cflag = @ \ { "CRTSCTS" } ]

ApplyFlowControl ==
    /\ pc = "flow"
    /\ tio' = FlowControlBits(tio, flowcontrol_)
    /\ pc' = "cfmakeraw"
    /\ Emit(<< "flow_bits" >>)
    /\ UNCHANGED << config, elsewhere, handleVars, is_open, rate, shutdown, opened, openFails,
                    committed, hintSet, lineCfgFailed, result, negLocals >>

\* io.hpp:162: cfmakeraw(&tio) clears IXON, ICANON and ECHO among the bits
\* modelled; it leaves IXOFF and CRTSCTS alone.
cfmakeraw(t) ==
    [ t EXCEPT !.c_iflag = @ \ { "IXON" },
               !.c_lflag = @ \ { "ICANON", "ECHO" } ]

MakeRaw ==
    /\ pc = "cfmakeraw"
    /\ tio' = cfmakeraw(tio)
    /\ pc' = "tcsetattr"
    /\ Emit(<< "cfmakeraw" >>)
    /\ UNCHANGED << config, elsewhere, handleVars, is_open, rate, shutdown, opened, openFails,
                    committed, hintSet, lineCfgFailed, result, negLocals >>

\* io.hpp:164-167: tcsetattr(fd, TCSANOW, &tio); return value ignored.
TcSetAttr ==
    /\ pc = "tcsetattr"
    /\ \E ok \in BOOLEAN :
          /\ committed' = IF ok THEN tio ELSE committed
          /\ lineCfgFailed' = (lineCfgFailed \/ ~ok)
    /\ pc' = "tiocgserial"
    /\ Emit(<< "tcsetattr" >>)
    /\ UNCHANGED << config, elsewhere, handleVars, is_open, rate, shutdown, opened, openFails, tio,
                    hintSet, result, negLocals >>

\* io.hpp:168-171: ioctl(fd, TIOCGSERIAL, &serialInfo); return value ignored.
TiocGSerial ==
    /\ pc = "tiocgserial"
    /\ \E ok \in BOOLEAN : lineCfgFailed' = (lineCfgFailed \/ ~ok)
    /\ pc' = "tiocsserial"
    /\ Emit(<< "TIOCGSERIAL" >>)
    /\ UNCHANGED << config, elsewhere, handleVars, is_open, rate, shutdown, opened, openFails, tio,
                    committed, hintSet, result, negLocals >>

\* io.hpp:172-175: flags |= ASYNC_LOW_LATENCY, ioctl(fd, TIOCSSERIAL, ..) with
\* its return value ignored, then the call of the negotiation.
TiocSSerial ==
    /\ pc = "tiocsserial"
    /\ \E ok \in BOOLEAN :
          /\ hintSet' = ok
          /\ lineCfgFailed' = (lineCfgFailed \/ ~ok)
    /\ pc' = "get0"
    /\ Emit(<< "TIOCSSERIAL" >>)
    /\ UNCHANGED << config, elsewhere, handleVars, is_open, rate, shutdown, opened, openFails, tio,
                    committed, result, negLocals >>

\* Variant of io.hpp:175 that drops the negotiation's result.
ReturnedValueAlwaysTrue(r) == "true"

\* io.hpp:175: return setBaudrate();
ReturnedValue(r) == r

ConnectReturn ==
    /\ pc = "neg_returned"
    /\ opened
    /\ result' = ReturnedValue(negResult)
    /\ pc' = "returned"
    /\ UNCHANGED << config, elsewhere, handleVars, is_open, rate, shutdown, opened, openFails, tio,
                    committed, hintSet, lineCfgFailed, negLocals, trace >>

(* ---------------------------------------------------------- setBaurate() *)

\* Variant of the test of io.hpp:217 that misses equality.
ReachedStrict(cur, target) == cur > target

\* io.hpp:217: the desired baudrate has been reached.
Reached(cur, target) == cur = target

\* Variants of the test of io.hpp:221-222 a slip would produce.
ShouldSkipTargetInclusive(cur, target, cand) == cur >= cand /\ target >= cand

ShouldSkipCurrentStrict(cur, target, cand) == cur > cand /\ target > cand

ShouldSkipEither(cur, target, cand) == cur >= cand \/ target > cand

ShouldSkipIgnoresTarget(cur, target, cand) == cur >= cand

\* io.hpp:221-222: the candidate is passed over.
ShouldSkip(cur, target, cand) == cur >= cand /\ target > cand

\* baudrates[i] for the code's 0-based i.
Candidate == baudrates[i + 1]

\* io.hpp:215-226: the loop reaches the set_option of this iteration.
AtSet ==
    /\ pc = "loop"
    /\ i < TableSize
    /\ ~Reached(current_baudrate, baudrate_)
    /\ ~ShouldSkip(current_baudrate, baudrate_, Candidate)

\* io.hpp:181-187, 212-214: the first get_option succeeds.
GetInitialOk ==
    /\ pc = "get0"
    /\ is_open
    /\ current_baudrate' = rate
    /\ rate0' = rate
    /\ i' = 0
    /\ pc' = "loop"
    /\ Emit(<< "log_DEBUG", "log_DEBUG", "get", "log_DEBUG" >>)
    /\ UNCHANGED << config, elsewhere, handleVars, is_open, rate, shutdown, connectLocals, setLog, negResult >>

\* io.hpp:181-208: the first get_option throws.
GetInitialThrow ==
    /\ pc = "get0"
    /\ negResult' = "false"
    /\ pc' = "neg_returned"
    /\ Emit(<< "log_DEBUG", "log_DEBUG", "get_throw", "log_ERROR", "log_INFO" >>)
    /\ UNCHANGED << config, elsewhere, handleVars, is_open, rate, shutdown, connectLocals, i,
                    current_baudrate, rate0, setLog >>

\* io.hpp:215: i < baudrates.size() is false.
LoopExit ==
    /\ pc = "loop"
    /\ ~(i < TableSize)
    /\ pc' = "after_loop"
    /\ UNCHANGED << config, elsewhere, handleVars, is_open, rate, shutdown, connectLocals, negLocals, trace >>

\* io.hpp:217-220: break.
Break ==
    /\ pc = "loop"
    /\ i < TableSize
    /\ Reached(current_baudrate, baudrate_)
    /\ pc' = "after_loop"
    /\ UNCHANGED << config, elsewhere, handleVars, is_open, rate, shutdown, connectLocals, negLocals, trace >>

\* io.hpp:221-225: continue.
Skip ==
    /\ pc = "loop"
    /\ i < TableSize
    /\ ~Reached(current_baudrate, baudrate_)
    /\ ShouldSkip(current_baudrate, baudrate_, Candidate)
    /\ i' = i + 1
    /\ UNCHANGED << config, elsewhere, handleVars, is_open, rate, shutdown, pc, connectLocals,
                    current_baudrate, rate0, setLog, negResult, trace >>

\* io.hpp:227-230: set_option(baud_rate(baudrates[i])) returns.
SetOk ==
    /\ AtSet
    /\ rate' = RateAfterSet(Candidate)
    /\ setLog' = Append(setLog, Candidate)
    /\ pc' = "settle"
    /\ Emit(<< "set" >>)
    /\ UNCHANGED << config, elsewhere, handleVars, is_open, shutdown, connectLocals, i,
                    current_baudrate, rate0, negResult >>

\* io.hpp:231-239: set_option throws.
SetThrow ==
    /\ AtSet
    /\ setLog' = Append(setLog, Candidate)
    /\ negResult' = "false"
    /\ pc' = "neg_returned"
    /\ Emit(<< "set_throw", "log_ERROR", "log_INFO" >>)
    /\ UNCHANGED << config, elsewhere, handleVars, is_open, rate, shutdown, connectLocals, i,
                    current_baudrate, rate0 >>

\* io.hpp:240-241: sleep_for(500ms).
Settle ==
    /\ pc = "settle"
    /\ pc' = "readback"
    /\ Emit(<< "sleep_500ms" >>)
    /\ UNCHANGED << config, elsewhere, handleVars, is_open, rate, shutdown, connectLocals, negLocals >>

\* Variant of io.hpp:243-245 that takes the rate just requested for the
\* current rate instead of reading it back.
ReadbackTrustsSet ==
    /\ pc = "readback"
    /\ current_baudrate' = Last(setLog)
    /\ i' = i + 1
    /\ pc' = "loop"
    /\ Emit(<< "get", "log_DEBUG" >>)
    /\ UNCHANGED << config, elsewhere, handleVars, is_open, rate, shutdown, connectLocals, rate0,
                    setLog, negResult >>

\* Variant of the readback that stays at the same table entry for the first
\* two requests.
ReadbackKeepsIndex ==
    /\ pc = "readback"
    /\ current_baudrate' = rate
    /\ i' = IF Len(setLog) < 2 THEN i ELSE i + 1
    /\ pc' = "loop"
    /\ Emit(<< "get", "log_DEBUG" >>)
    /\ UNCHANGED << config, elsewhere, handleVars, is_open, rate, shutdown, connectLocals, rate0,
                    setLog, negResult >>

\* io.hpp:243-245, 262-265: the readback succeeds; i++.
ReadbackOk ==
    /\ pc = "readback"
    /\ current_baudrate' = rate
    /\ i' = i + 1
    /\ pc' = "loop"
    /\ Emit(<< "get", "log_DEBUG" >>)
    /\ UNCHANGED << config, elsewhere, handleVars, is_open, rate, shutdown, connectLocals, rate0,
                    setLog, negResult >>

\* Variant of io.hpp:246-261 that reads again after a failed readback (the
\* loop left commented out at io.hpp:253-259).
ReadbackThrowRetries ==
    /\ pc = "readback"
    /\ pc' = "readback"
    /\ Emit(<< "get_throw", "log_ERROR", "log_INFO" >>)
    /\ UNCHANGED << config, elsewhere, handleVars, is_open, rate, shutdown, connectLocals, negLocals >>

\* io.hpp:246-261: the readback throws.
ReadbackThrow ==
    /\ pc = "readback"
    /\ negResult' = "false"
    /\ pc' = "neg_returned"
    /\ Emit(<< "get_throw", "log_ERROR", "log_INFO" >>)
    /\ UNCHANGED << config, elsewhere, handleVars, is_open, rate, shutdown, connectLocals, i,
                    current_baudrate, rate0, setLog >>

\* io.hpp:266-269: the final log line, then control flows off the end of a
\* function returning bool: no return statement, the caller reads whatever
\* the build left in the return register.
FallOffEnd ==
    /\ pc = "after_loop"
    /\ negResult' \in { "true", "false" }
    /\ pc' = "neg_returned"
    /\ Emit(<< "log_INFO" >>)
    /\ UNCHANGED << config, elsewhere, handleVars, is_open, rate, shutdown, connectLocals, i,
                    current_baudrate, rate0, setLog >>

(* ------------------------------------------------------- specifications *)

\* The steps of setBaurate().
NegNext ==
    \/ GetInitialOk
    \/ GetInitialThrow
    \/ LoopExit
    \/ Break
    \/ Skip
    \/ SetOk
    \/ SetThrow
    \/ Settle
    \/ ReadbackOk
    \/ ReadbackThrow
    \/ FallOffEnd

\* The steps of the thread inside connect().
ConnectStep ==
    \/ OpenOk
    \/ OpenFail
    \/ Backoff
    \/ SetOptionsOk
    \/ SetOptionsThrow
    \/ TcGetAttr
    \/ ApplyFlowControl
    \/ MakeRaw
    \/ TcSetAttr
    \/ TiocGSerial
    \/ TiocSSerial
    \/ ConnectReturn

Next ==
    \/ CallConnect
    \/ RequestShutdown
    \/ ConnectStep
    \/ NegNext

\* A SerialIo whose owner calls connect(), any number of times.
Spec == Init /\ [][Next]_vars

\* The thread inside connect() or setBaurate() keeps running.
FairSpec == Spec /\ WF_vars(ConnectStep \/ NegNext)

\* setBaurate() run on its own against a simulated open handle with any
\* rate; flow control plays no part in it.
NegInit ==
    /\ baudrate_ \in Targets
    /\ flowcontrol_ = FALSE
    /\ is_open = TRUE
    /\ rate \in SimRates
    /\ sticky \in BOOLEAN
    /\ shutdown = FALSE
    /\ pc = "get0"
    /\ pcB = "none"
    /\ live = 1
    /\ released = 0
    /\ glitches = 0
    /\ endpointIterator_ = 0
    /\ reachable = { }
    /\ connected = FALSE
    /\ no_delay = FALSE
    /\ opened = FALSE
    /\ openFails = 0
    /\ tio = NoTio
    /\ committed = NoTio
    /\ hintSet = FALSE
    /\ lineCfgFailed = FALSE
    /\ i = 0
    /\ current_baudrate = 0
    /\ rate0 = 0
    /\ setLog = << >>
    /\ negResult = "none"
    /\ result = "none"
    /\ trace = << >>

NegSpec == NegInit /\ [][NegNext]_vars

NegFairSpec == NegSpec /\ WF_vars(NegNext)


(* ----------------------------------------------------------------- TcpIo *)

\* Endpoints a resolver query is answered with.
MaxEndpoints == 3

Endpoints == 1..MaxEndpoints

\* State of SerialIo, which no step of TcpIo touches.
serialVars == << config, rate, shutdown, opened, openFails, tio, committed,
                 hintSet, lineCfgFailed, negLocals, glitches, pcB >>

\* A TcpIo about to be constructed; which endpoints accept a connection is
\* the network's choice.
TcpInit ==
    /\ baudrate_ = 115200
    /\ flowcontrol_ = FALSE
    /\ sticky = FALSE
    /\ is_open = FALSE
    /\ rate = 0
    /\ shutdown = FALSE
    /\ pc = "tcp_new"
    /\ pcB = "none"
    /\ live = 0
    /\ released = 0
    /\ glitches = 0
    /\ endpointIterator_ = 0
    /\ reachable \in SUBSET Endpoints
    /\ connected = FALSE
    /\ no_delay = FALSE
    /\ opened = FALSE
    /\ openFails = 0
    /\ tio = NoTio
    /\ committed = NoTio
    /\ hintSet = FALSE
    /\ lineCfgFailed = FALSE
    /\ i = 0
    /\ current_baudrate = 0
    /\ rate0 = 0
    /\ setLog = << >>
    /\ negResult = "none"
    /\ result = "none"
    /\ trace = << >>

\* io.hpp:68-76: the constructor resolves ip:port and keeps the iterator.
TcpResolveOk ==
    /\ pc = "tcp_new"
    /\ \E e \in Endpoints : endpointIterator_' = e
    /\ pc' = "tcp_idle"
    /\ Emit(<< "resolve_ok" >>)
    /\ UNCHANGED << serialVars, handleVars, is_open, reachable, connected,
                    no_delay, result >>

\* io.hpp:73-75: resolve() throws system_error out of the constructor; no
\* object exists to call connect() on.
TcpResolveThrow ==
    /\ pc = "tcp_new"
    /\ pc' = "tcp_ctor_thrown"
    /\ result' = "exception"
    /\ Emit(<< "resolve_fail" >>)
    /\ UNCHANGED << serialVars, handleVars, is_open, endpointIterator_,
                    reachable, connected, no_delay >>

\* io.hpp:80-82: connect() replaces the socket by a fresh one; the socket
\* replaced is destroyed, which closes it when it is open.
TcpCallConnect ==
    /\ pc \in { "tcp_idle", "tcp_returned", "tcp_thrown" }
    /\ pc' = "tcp_connect"
    /\ is_open' = FALSE
    /\ live' = live - ReleasedByClose(is_open)
    /\ released' = released + ReleasedByClose(is_open)
    /\ connected' = FALSE
    /\ no_delay' = FALSE
    /\ result' = "none"
    /\ trace' = << >>
    /\ UNCHANGED << serialVars, endpointIterator_, reachable >>

\* io.hpp:84: connect(*endpointIterator_) opens the socket and connects it.
TcpConnectOk ==
    /\ pc = "tcp_connect"
    /\ endpointIterator_ \in reachable
    /\ is_open' = TRUE
    /\ live' = live + 1
    /\ released' = 0
    /\ connected' = TRUE
    /\ pc' = "tcp_no_delay"
    /\ Emit(<< "tcp_connect_ok" >>)
    /\ UNCHANGED << serialVars, endpointIterator_, reachable, no_delay, result >>

\* Variant of a failed connection attempt that sleeps and tries once more.
TcpConnectFailRetries ==
    /\ pc = "tcp_connect"
    /\ endpointIterator_ \notin reachable
    /\ is_open' = TRUE
    /\ live' = IF is_open THEN live ELSE live + 1
    /\ released' = IF is_open THEN released ELSE 0
    /\ pc' = IF Len(trace) < 2 THEN "tcp_connect" ELSE "tcp_thrown"
    /\ result' = IF Len(trace) < 2 THEN result ELSE "exception"
    /\ Emit(<< "tcp_connect_fail", "sleep_1s" >>)
    /\ UNCHANGED << serialVars, endpointIterator_, reachable, connected, no_delay >>

\* io.hpp:84: connect() opens the socket, the connection is refused and
\* system_error leaves TcpIo::connect(); the socket stays open.
TcpConnectFail ==
    /\ pc = "tcp_connect"
    /\ endpointIterator_ \notin reachable
    /\ is_open' = TRUE
    /\ live' = live + 1
    /\ released' = 0
    /\ pc' = "tcp_thrown"
    /\ result' = "exception"
    /\ Emit(<< "tcp_connect_fail" >>)
    /\ UNCHANGED << serialVars, endpointIterator_, reachable, connected, no_delay >>

\* io.hpp:86: set_option(no_delay(true)) succeeds.
TcpNoDelayOk ==
    /\ pc = "tcp_no_delay"
    /\ no_delay' = TRUE
    /\ pc' = "tcp_end"
    /\ Emit(<< "no_delay" >>)
    /\ UNCHANGED << serialVars, handleVars, is_open, endpointIterator_,
                    reachable, connected, result >>

\* io.hpp:86: set_option throws system_error out of TcpIo::connect().
TcpNoDelayThrow ==
    /\ pc = "tcp_no_delay"
    /\ pc' = "tcp_thrown"
    /\ result' = "exception"
    /\ Emit(<< "no_delay_throw" >>)
    /\ UNCHANGED << serialVars, handleVars, is_open, endpointIterator_,
                    reachable, connected, no_delay >>

\* io.hpp:87: the function returning bool ends without a return statement;
\* the value the caller reads is indeterminate.
TcpFallOffEnd ==
    /\ pc = "tcp_end"
    /\ pc' = "tcp_returned"
    /\ result' \in { "true", "false" }
    /\ UNCHANGED << serialVars, handleVars, is_open, tcpVars, trace >>

\* io.hpp:78: ~TcpIo() calls socket_.close() whatever the state of the socket.
TcpDestroy ==
    /\ pc \in { "tcp_idle", "tcp_returned", "tcp_thrown" }
    /\ pc' = "tcp_destroying"
    /\ is_open' = FALSE
    /\ live' = live - ReleasedByClose(is_open)
    /\ released' = released + ReleasedByClose(is_open)
    /\ connected' = FALSE
    /\ no_delay' = FALSE
    /\ Emit(<< "close" >>)
    /\ UNCHANGED << serialVars, endpointIterator_, reachable, result >>

\* io.hpp:78, 92: after the body of ~TcpIo() the member socket_ is destroyed,
\* which closes the socket once more.
TcpDestroyMember ==
    /\ pc = "tcp_destroying"
    /\ pc' = "tcp_destroyed"
    /\ is_open' = FALSE
    /\ live' = live - ReleasedByClose(is_open)
    /\ released' = released + ReleasedByClose(is_open)
    /\ Emit(<< "close" >>)
    /\ UNCHANGED << serialVars, tcpVars, result >>

TcpNext ==
    \/ TcpResolveOk
    \/ TcpResolveThrow
    \/ TcpCallConnect
    \/ TcpConnectOk
    \/ TcpConnectFail
    \/ TcpNoDelayOk
    \/ TcpNoDelayThrow
    \/ TcpFallOffEnd
    \/ TcpDestroy
    \/ TcpDestroyMember

TcpSpec == TcpInit /\ [][TcpNext]_vars

\* Either kind of connection: a SerialIo or a TcpIo, driven by its owner.
IoInit == Init \/ TcpInit

IoNext == Next \/ TcpNext

IoSpec == IoInit /\ [][IoNext]_vars


(* ------------------------------------------- two threads on one SerialIo *)

\* State the steps of the two racing threads leave alone.
raceFrame == << config, rate, shutdown, connectLocals, negLocals, trace,
                glitches, tcpVars >>

\* io.hpp:105-112: one thread calls connect() on a connected SerialIo while
\* another destroys it; nothing in the class orders their steps.
RaceStart ==
    /\ pc = "returned"
    /\ pcB = "none"
    /\ pc' = "c_enter"
    /\ pcB' = "d_close"
    /\ UNCHANGED << raceFrame, handleVars, is_open >>

\* io.hpp:109: connect() reads serialPort_.is_open().
ConnectIsOpen ==
    /\ pc = "c_enter"
    /\ pc' = IF is_open THEN "c_close" ELSE "c_done"
    /\ UNCHANGED << raceFrame, handleVars, is_open, pcB >>

\* io.hpp:111: close() reads the state of the descriptor.
ConnectCloseTest ==
    /\ pc = "c_close"
    /\ pc' = IF is_open THEN "c_release" ELSE "c_done"
    /\ UNCHANGED << raceFrame, handleVars, is_open, pcB >>

\* io.hpp:111: close() releases the descriptor it has found open.
ConnectCloseRelease ==
    /\ pc = "c_release"
    /\ pc' = "c_done"
    /\ is_open' = FALSE
    /\ live' = live - 1
    /\ released' = released + 1
    /\ UNCHANGED << raceFrame, pcB >>

\* io.hpp:105: the close() of ~SerialIo() reads the state of the descriptor.
DtorCloseTest ==
    /\ pcB = "d_close"
    /\ pcB' = IF is_open THEN "d_release" ELSE "d_done"
    /\ UNCHANGED << raceFrame, handleVars, is_open, pc >>

\* io.hpp:105: the close() of ~SerialIo() releases the descriptor it has
\* found open.
DtorCloseRelease ==
    /\ pcB = "d_release"
    /\ pcB' = "d_done"
    /\ is_open' = FALSE
    /\ live' = live - 1
    /\ released' = released + 1
    /\ UNCHANGED << raceFrame, pc >>

RaceNext ==
    \/ Next
    \/ RaceStart
    \/ ConnectIsOpen
    \/ ConnectCloseTest
    \/ ConnectCloseRelease
    \/ DtorCloseTest
    \/ DtorCloseRelease

RaceSpec == Init /\ [][RaceNext]_vars


(* ------------------------------------------ setBaurate(), erratic handle *)

\* get_option results that differ from the rate of the handle, at most.
MaxGlitch == 2

\* What a handle that misreports reads back: a rate below the table, a rate
\* inside it, the target, a rate above the table.
ErraticReadings == { 300, 115200, baudrate_, 5000000 }

\* State a misreported reading leaves alone.
erraticFrame == << config, handleVars, pcB, tcpVars, is_open, rate, shutdown,
                   connectLocals, setLog, negResult >>

\* io.hpp:185-192: the initial get_option returns a value that is not the
\* rate of the handle.
GetInitialErratic ==
    /\ pc = "get0"
    /\ is_open
    /\ glitches < MaxGlitch
    /\ glitches' = glitches + 1
    /\ \E v \in ErraticReadings \ { rate } :
          /\ current_baudrate' = v
          /\ rate0' = v
    /\ i' = 0
    /\ pc' = "loop"
    /\ Emit(<< "log_DEBUG", "log_DEBUG", "get", "log_DEBUG" >>)
    /\ UNCHANGED erraticFrame

\* io.hpp:243-265: the readback returns a value that is not the rate of the
\* handle; i++ as after any readback.
ReadbackErratic ==
    /\ pc = "readback"
    /\ glitches < MaxGlitch
    /\ glitches' = glitches + 1
    /\ \E v \in ErraticReadings \ { rate } : current_baudrate' = v
    /\ i' = i + 1
    /\ pc' = "loop"
    /\ Emit(<< "get", "log_DEBUG" >>)
    /\ UNCHANGED << erraticFrame, rate0 >>

ErraticNext == NegNext \/ GetInitialErratic \/ ReadbackErratic

\* Targets and initial rates of the runs on an erratic handle.
ErraticTargets == { 1200, 115200, 4000000, 100000 }

ErraticRates == { 300, 9600, 115200, 5000000 }

ErraticInit ==
    /\ NegInit
    /\ baudrate_ \in ErraticTargets
    /\ rate \in ErraticRates

ErraticSpec == ErraticInit /\ [][ErraticNext]_vars

ErraticFairSpec == ErraticSpec /\ WF_vars(ErraticNext)

(* --------------------------------------------------------------- claims *)

\* A get_option or set_option of setBaurate() has thrown.
Threw == \E k \in 1..Len(trace) : trace[k] \in { "get_throw", "set_throw" }

NegDone == pc = "neg_returned"

\* The rates the handle has had since the initial get, when every set took
\* effect.
RateSeq == << rate0 >> \o setLog

\* C1: for every target in the table, every initial rate and a handle that
\* applies every set and never fails, setBaurate() terminates, and when it
\* has returned the handle's rate (and the rate last read back) is the target.
C1_ReachesTarget ==
    /\ <>NegDone
    /\ [](NegDone /\ ~sticky /\ ~Threw /\ baudrate_ \in BaudTable
            => rate = baudrate_ /\ current_baudrate = baudrate_)

C1_Witness ==
    /\ NegDone /\ ~sticky /\ ~Threw
    /\ baudrate_ \in BaudTable
    /\ rate0 \notin BaudTable
    /\ Len(setLog) >= 3
    /\ rate = baudrate_

\* The case of C2: table members, current below target, faithful handle.
AscentCase ==
    /\ ~sticky /\ ~Threw
    /\ rate0 \in BaudTable
    /\ baudrate_ \in BaudTable
    /\ rate0 < baudrate_

\* C2: with current < target, both in the table, and a faithful handle, the
\* handle's rates are the table entries from the current rate upwards, one
\* after the other with none left out, never beyond the target, and the loop
\* is left only with the handle at the target.
C2_StepwiseAscent ==
    AscentCase =>
        /\ RateSeq = TableSlice(IndexOf(rate0), IndexOf(rate0) + Len(setLog))
        /\ rate = Last(RateSeq)
        /\ rate <= baudrate_
        /\ pc \in { "after_loop", "neg_returned" } => rate = baudrate_

C2_Witness ==
    /\ NegDone /\ AscentCase
    /\ rate0 = 9600
    /\ baudrate_ = 115200
    /\ RateSeq = << 9600, 19200, 38400, 57600, 115200 >>

\* The case of C3: target in the table and below the current rate.
DescentCase ==
    /\ ~sticky /\ ~Threw
    /\ baudrate_ \in BaudTable
    /\ rate0 > baudrate_

\* C3: with the target below the current rate and a faithful handle, the loop
\* index only moves upwards one entry at a time, every candidate below the
\* target is passed over before anything is set, and setBaurate() returns
\* with the handle at the target.
C3_TargetBelowCurrent ==
    /\ [][i' = i \/ i' = i + 1]_vars
    /\ [](DescentCase =>
            /\ setLog = << >> => i < IndexOf(baudrate_)
            /\ setLog # << >> => i >= IndexOf(baudrate_) - 1 /\ rate = baudrate_
            /\ \A k \in 1..Len(setLog) : setLog[k] >= baudrate_
            /\ pc \in { "after_loop", "neg_returned" } => rate = baudrate_)

C3_Witness ==
    /\ NegDone /\ DescentCase
    /\ rate0 = 4000000
    /\ baudrate_ = 9600
    /\ rate = 9600
    /\ i = IndexOf(9600)

\* C4: when the loop has run through the whole table and the rate read back
\* still differs from the target, setBaurate() and connect() return failure.
C4_UnreachedIsFailure ==
    (i = TableSize /\ current_baudrate # baudrate_) =>
        /\ pc = "neg_returned" => negResult = "false"
        /\ pc = "returned" => result = "false"

\* C5: a get_option or set_option that throws is the last call setBaurate()
\* makes on the handle: an ERROR line follows it, setBaurate() has returned
\* false, and no set, get or settle delay comes after it.
C5_AbortOnFailure ==
    \A k \in 1..Len(trace) :
        trace[k] \in { "get_throw", "set_throw" } =>
            /\ NegDone
            /\ negResult = "false"
            /\ Len(trace) = k + 2
            /\ trace[k + 1] = "log_ERROR"
            /\ trace[k + 2] = "log_INFO"

C5_Witness ==
    /\ NegDone
    /\ Len(setLog) >= 2
    /\ Last(setLog) # baudrate_
    /\ \E k \in 1..Len(trace) : trace[k] = "get_throw"
    /\ negResult = "false"

\* n rounds of the open retry loop.
RECURSIVE FailedRounds(_)
FailedRounds(n) ==
    IF n = 0 THEN << >>
    ELSE FailedRounds(n - 1) \o << "open_fail", "log_ERROR", "sleep_1s" >>

OpenLoopPcs == { "open", "backoff" }

\* C6: inside the open loop every failed open() has been followed by one
\* ERROR line and one 1 s sleep before the next attempt, connect() has not
\* returned, the sleep always leads to another attempt whatever the number
\* of failures, and the loop is left only by an open() that succeeded.
C6_OpenRetriesUnbounded ==
    /\ [](pc = "open" => trace = FailedRounds(openFails))
    /\ [](pc = "backoff" =>
            trace = FailedRounds(openFails - 1) \o << "open_fail", "log_ERROR" >>)
    /\ [](pc \in OpenLoopPcs => result = "none" /\ ~opened /\ ~is_open)
    /\ [](result # "none" =>
            /\ opened
            /\ Len(trace) > 3 * openFails
            /\ SubSeq(trace, 1, 3 * openFails) = FailedRounds(openFails)
            /\ trace[3 * openFails + 1] = "open_ok")
    /\ [][pc = "backoff" /\ pc' # pc => pc' = "open"]_vars
    /\ [][(pc \in OpenLoopPcs /\ pc' \notin OpenLoopPcs)
            => (pc = "open" /\ pc' = "set_options" /\ is_open' /\ opened')]_vars

C6_Witness ==
    /\ pc = "set_options"
    /\ openFails = 2
    /\ trace = FailedRounds(2) \o << "open_ok" >>

\* C7: once a shutdown has been requested, the end of a backoff sleep does
\* not lead to another open() attempt.
C7_LoopCancellable == [][shutdown /\ pc = "backoff" => pc' # "open"]_vars

CfgEvents == { "set_options", "set_options_throw", "tcgetattr", "flow_bits",
               "cfmakeraw", "tcsetattr", "TIOCGSERIAL", "TIOCSSERIAL" }

NegEvents == { "get", "get_throw", "set", "set_throw", "sleep_500ms" }

\* Some event of `before` stands in the trace ahead of position k.
Preceded(k, before) == \E j \in 1..(k - 1) : trace[j] \in before

\* C8: line configuration happens only on an opened port, after open() has
\* succeeded; the negotiation's calls come only after the last line
\* configuration call; connect() returns the value setBaurate() returned; it
\* is left by an exception only when a set_option threw; and once open() has
\* succeeded connect() is eventually left.
C8_PhaseOrderAndResult ==
    /\ [](pc \in CfgPcs \cup NegPcs => opened /\ is_open)
    /\ [](\A k \in 1..Len(trace) :
            /\ trace[k] \in CfgEvents => Preceded(k, { "open_ok" })
            /\ trace[k] \in NegEvents => Preceded(k, { "TIOCSSERIAL" }))
    /\ [](pc = "returned" => result = negResult /\ result \in { "true", "false" })
    /\ [](pc = "thrown" => Last(trace) = "set_options_throw")
    /\ (pc = "set_options") ~> (pc \in { "returned", "thrown" })

C8_Witness ==
    /\ pc = "returned"
    /\ result = "false"
    /\ Threw
    /\ openFails >= 1
    /\ Len(setLog) >= 2

\* C9: after tcgetattr, tcsetattr or one of the serial-info ioctls has failed,
\* connect() neither runs the baud negotiation nor returns success.
C9_LineConfigFatal ==
    lineCfgFailed =>
        /\ pc \notin NegPcs \cup { "neg_returned" }
        /\ result # "true"

\* C10: the attributes committed by tcsetattr have IXON and IXOFF off and
\* CRTSCTS on exactly when flow control was asked for; tcsetattr comes after
\* the flow control bits and cfmakeraw, and the low latency ioctl after it.
C10_FlowControlCommitted ==
    /\ committed # NoTio =>
          /\ "IXON" \notin committed.c_iflag
          /\ "IXOFF" \notin committed.c_iflag
          /\ ("CRTSCTS" \in committed.c_cflag) <=> flowcontrol_
    /\ \A k \in 1..Len(trace) :
          /\ trace[k] = "tcsetattr" =>
                Preceded(k, { "flow_bits" }) /\ Preceded(k, { "cfmakeraw" })
          /\ trace[k] = "TIOCSSERIAL" => Preceded(k, { "tcsetattr" })
    /\ pc \in { "tcgetattr", "flow", "cfmakeraw", "tcsetattr" } =>
          committed = NoTio /\ ~hintSet
    /\ hintSet => pc \notin CfgPcs

C10_Witness ==
    /\ committed # NoTio
    /\ flowcontrol_
    /\ "CRTSCTS" \in committed.c_cflag
    /\ hintSet
    /\ ~lineCfgFailed
    /\ pc = "get0"

\* Number of places of the trace that hold the event ev.
Count(ev) == Cardinality({ k \in 1..Len(trace) : trace[k] = ev })

\* C16: in setBaurate() every set that returned is followed by the 500 ms
\* sleep and then by one get before any other call; at the head of the loop
\* the current rate is what the handle holds, not what was requested; and on
\* a handle that keeps a rate other than the target the loop is never left
\* by the break, also after the target itself has been requested.
C16_ReadbackDrives ==
    /\ [](\A k \in 1..Len(trace) :
            trace[k] = "set" =>
                /\ k + 1 <= Len(trace) => trace[k + 1] = "sleep_500ms"
                /\ k + 2 <= Len(trace) => trace[k + 2] \in { "get", "get_throw" }
                /\ k = Len(trace) => pc = "settle"
                /\ k + 1 = Len(trace) => pc = "readback")
    /\ [](Count("set") <= Count("sleep_500ms") + 1
            /\ Count("sleep_500ms") <= Count("get") + Count("get_throw"))
    /\ [](pc \in { "loop", "after_loop" } => current_baudrate = rate)
    /\ []((sticky /\ rate # baudrate_ /\ pc \in { "after_loop", "neg_returned" }
              /\ ~Threw) => i = TableSize)
    /\ [][(sticky /\ rate # baudrate_ /\ pc = "loop" /\ pc' = "after_loop")
            => i = TableSize]_vars

C16_Witness ==
    /\ NegDone /\ sticky /\ ~Threw
    /\ rate # baudrate_
    /\ \E k \in 1..Len(setLog) : setLog[k] = baudrate_
    /\ i = TableSize
    /\ current_baudrate = rate

\* C18: with the target in the table and below the current rate, on a
\* faithful handle, the only rate ever requested is the target, and it has
\* been requested exactly once when setBaurate() returns.
C18_DownwardSingleJump ==
    DescentCase =>
        /\ setLog \in { << >>, << baudrate_ >> }
        /\ Count("set") = Len(setLog)
        /\ pc \in { "after_loop", "neg_returned" } => setLog = << baudrate_ >>

C18_Witness ==
    /\ NegDone /\ DescentCase
    /\ rate0 = 115200
    /\ baudrate_ = 1200
    /\ setLog = << 1200 >>
    /\ Count("set") = 1

\* C19: inside connect(), when the first get returns the target the
\* negotiation requests no rate and makes no settle delay; on a handle that
\* applies the set of the line configuration that is always so; rates are
\* requested only when the first get returned another rate.
C19_NoOpWhenFaithful ==
    /\ (opened /\ rate0 = baudrate_) =>
          setLog = << >> /\ Count("set") = 0 /\ Count("sleep_500ms") = 0
    /\ (opened /\ ~sticky /\ pc \in (NegPcs \ { "get0" }) \cup { "neg_returned", "returned" }
          /\ Count("get_throw") = 0) => rate0 = baudrate_
    /\ (opened /\ ~sticky) => setLog = << >>
    /\ (opened /\ setLog # << >>) => rate0 # baudrate_ /\ sticky

C19_Witness ==
    /\ pc = "returned"
    /\ ~sticky
    /\ rate0 = baudrate_
    /\ rate = baudrate_
    /\ Count("get") = 1
    /\ setLog = << >>

\* C20: with a target that is no table member and below the last entry, a
\* faithful handle and an initial rate other than the target, the loop is
\* never left by the break, every entry above both the initial rate and the
\* target is requested, the handle ends at the last entry, and setBaurate()
\* does not return failure.
OffTableCase ==
    /\ ~sticky /\ ~Threw
    /\ baudrate_ \notin BaudTable
    /\ baudrate_ < baudrates[TableSize]
    /\ rate0 # 0
    /\ rate0 # baudrate_

C20_OffTableOvershoots ==
    (OffTableCase /\ pc \in { "after_loop", "neg_returned" }) =>
        /\ i = TableSize
        /\ rate = baudrates[TableSize]
        /\ \A k \in 1..TableSize :
              (baudrates[k] > rate0 /\ baudrates[k] > baudrate_)
                  => \E j \in 1..Len(setLog) : setLog[j] = baudrates[k]
        /\ pc = "neg_returned" => negResult # "false"

\* The part of C20 that does not depend on the value returned.
C20_OvershootReached ==
    /\ NegDone /\ OffTableCase
    /\ rate = baudrates[TableSize]
    /\ negResult = "true"


(* ------------------------------------------------------------------ C14 *)

\* C14: an object owns at most one live handle across any number of
\* connect() calls: a call that finds the port open closes it, releasing the
\* handle, before the first open attempt, so the open loop starts with no
\* handle and a handle is only ever acquired when none is held.
C14_SingleLiveHandle ==
    /\ [](live = IF is_open THEN 1 ELSE 0)
    /\ [](live <= 1)
    /\ [](pc \in OpenLoopPcs => (~is_open /\ live = 0))
    /\ [][(live' > live) => (live = 0 /\ live' = 1)]_vars
    /\ [][(is_open /\ pc \notin OpenLoopPcs /\ pc' = "open")
            => (released' = released + 1 /\ live' = 0 /\ ~is_open')]_vars

\* A later connect() has released the handle of the earlier one and is about
\* to make its first open attempt.
C14_Witness ==
    /\ pc = "open"
    /\ openFails = 0
    /\ released = 1
    /\ live = 0
    /\ ~is_open


(* ------------------------------------------------------------------ C11 *)

\* C11: TcpIo never retries.  One call of connect() makes at most one
\* connection attempt and never sleeps; a failed attempt, like a failed
\* resolution in the constructor, is an exception thrown at once, with
\* nothing done after it; no_delay is set only directly after an attempt that
\* succeeded.
C11_TcpNeverRetries ==
    /\ Count("tcp_connect_ok") + Count("tcp_connect_fail") <= 1
    /\ \A k \in 1..Len(trace) : trace[k] \notin { "sleep_1s", "sleep_500ms" }
    /\ Count("tcp_connect_fail") = 1 =>
            /\ trace[1] = "tcp_connect_fail"
            /\ pc \in { "tcp_thrown", "tcp_destroying", "tcp_destroyed" }
            /\ result = "exception"
            /\ ~connected /\ ~no_delay
            /\ Count("no_delay") = 0
    /\ pc = "tcp_ctor_thrown" =>
            (trace = << "resolve_fail" >> /\ result = "exception" /\ live = 0)
    /\ \A k \in 1..Len(trace) :
            trace[k] = "no_delay" => (k = 2 /\ trace[1] = "tcp_connect_ok")
    /\ no_delay => (connected /\ Count("tcp_connect_ok") = 1)
    /\ pc = "tcp_connect" => trace = << >>

\* A connect() whose only attempt was refused has thrown.
C11_Witness ==
    /\ pc = "tcp_thrown"
    /\ trace = << "tcp_connect_fail" >>
    /\ endpointIterator_ \notin reachable
    /\ result = "exception"


(* ------------------------------------------------------------------ C12 *)

\* A step that closes the port or socket: a destructor body, the destruction
\* of the member after it, or the replacement of the socket in connect().
ClosingStep ==
    \/ pc' \in { "destroying", "destroyed", "tcp_destroying", "tcp_destroyed" }
       /\ pc' # pc
    \/ pc' = "tcp_connect" /\ pc # "tcp_connect"

Connected ==
    \/ pc = "returned" /\ is_open
    \/ pc = "tcp_returned" /\ connected

\* C15: connect() on a connected object is guarded: the call returns an
\* error and leaves the connection as it was.
C15_ConnectGuarded ==
    [][(Connected /\ pc' \in { "open", "tcp_connect" }) =>
            /\ is_open'
            /\ live' = live
            /\ released' = released
            /\ connected' = connected
            /\ result' \in { "false", "exception" }]_vars

\* A connect() on a connected TcpIo has replaced the socket: the connection
\* is gone, its handle released, and a new attempt is about to be made.
C15_Replaced ==
    /\ pc = "tcp_connect"
    /\ released = 1
    /\ live = 0
    /\ ~is_open
    /\ ~connected
    /\ result = "none"


(* ------------------------------------------------------------------ C13 *)

\* C13: when connect() and the destructor run at once on a connected
\* object, the handle is released exactly once in every interleaving: never
\* twice, and once both threads are past their close, not zero times.
C13_ReleasedExactlyOnce ==
    /\ released <= 1
    /\ live >= 0
    /\ (pc = "c_done" /\ pcB = "d_done") => released = 1

\* Both threads found the port open and both released its descriptor.
C13_DoubleRelease ==
    /\ pc = "c_done"
    /\ pcB = "d_done"
    /\ released = 2
    /\ live = -1


(* ------------------------------------------------------------------ C17 *)

\* C17: whatever the handle reads back and whichever call throws,
\* setBaurate() terminates; it requests at most one rate per table entry and
\* sleeps at most once per request, so at most 21 times each; the rates
\* requested are table entries in strictly increasing order, none twice; the
\* loop index never goes back.
C17_BoundedNegotiation ==
    /\ <>NegDone
    /\ [](Len(setLog) <= TableSize)
    /\ [](Count("set") + Count("set_throw") = Len(setLog))
    /\ [](Count("sleep_500ms") <= Len(setLog) /\ Count("sleep_500ms") <= TableSize)
    /\ [](\A k \in 1..Len(setLog) : setLog[k] \in BaudTable)
    /\ [](\A j, k \in 1..Len(setLog) : j < k => setLog[j] < setLog[k])
    /\ [](i <= TableSize)
    /\ [][i' >= i]_vars

\* Negotiation has ended on a handle that misreported its rate twice and
\* applied none of the rates requested of it.
C17_Witness ==
    /\ NegDone
    /\ glitches = MaxGlitch
    /\ sticky
    /\ Len(setLog) >= 2
    /\ rate # baudrate_

====
